---- MODULE Spec2Model ----
(***************************************************************************)
(* Model of the merge sort of scripts/ui-admin.js (merge, mergeSort,       *)
(* sortByPrice, sortByName) over Product objects of scripts/products.js.   *)
(*                                                                         *)
(* JavaScript values are tagged records: a number, a string (a sequence of *)
(* one-character strings) or undefined.  Objects and arrays live in a heap *)
(* (objs, arrs) and are named by their index, so that "the same array" and *)
(* "an equal array" are different things, as they are in the program.      *)
(*                                                                         *)
(* Four specifications: Spec (a caller of the exported sort functions),    *)
(* SpecSteps (invocations of mergeSort taken step by step and             *)
(* interleaved), SpecStore (the product catalog of scripts/backend.js) and *)
(* SpecCart (the cart of scripts/backend.js and its page, ui-cart.js).     *)
(***************************************************************************)
EXTENDS Integers, Sequences, FiniteSets

\* a caller of the exported sort functions, seen from outside
VARIABLES objs, arrs, input, call, result, again, pc

\* invocations of mergeSort seen step by step: each invocation's input
\* array and key, its stack of activation records, what it returned, the
\* comparisons it has made and the last merge it completed
VARIABLES stepIn, stepKey, frames, ret, compares, lastMerge

\* the catalog of scripts/backend.js: the localStorage entry, the array
\* defaultProducts of scripts/products.js, the ids addProduct has handed
\* out, the last operation, the number of operations so far, and whether
\* an entry was stored by a call of saveProducts or saveCartItems made from
\* outside the operations of the backend
VARIABLES storage, defaults, assigned, lastOp, ops, direct

\* the cart of scripts/backend.js and the cart page of scripts/ui-cart.js:
\* the localStorage entry of the cart, and the CartItem objects the cards
\* on the page were made from
VARIABLES cart, cards

callVars == <<objs, arrs, input, call, result, again, pc>>

stepVars == <<stepIn, stepKey, frames, ret, compares, lastMerge>>

storeVars == <<storage, defaults, assigned, lastOp, ops, direct>>

cartVars == <<cart, cards>>

vars == <<callVars, stepVars, storeVars, cartVars>>

\* no step-by-step invocation is under way
StepsIdle ==
    /\ stepIn = <<>> /\ stepKey = <<>> /\ frames = <<>>
    /\ ret = <<>> /\ compares = <<>> /\ lastMerge = <<>>

\* the catalog is not loaded
StoreIdle ==
    /\ storage = <<>> /\ defaults = <<>> /\ assigned = {}
    /\ lastOp = <<>> /\ ops = 0 /\ direct = FALSE

\* no cart page is open
CartIdle == cart = <<>> /\ cards = <<>>

(***************************************************************************)
(* Bounds                                                                  *)
(***************************************************************************)
\* longest array handed to a sort
MaxLen == 4

(***************************************************************************)
(* JavaScript values                                                       *)
(***************************************************************************)
Undefined == [t |-> "undefined", v |-> 0, s |-> <<>>]
Num(n) == [t |-> "number", v |-> n, s |-> <<>>]
Str(chars) == [t |-> "string", v |-> 0, s |-> chars]

\* a parsed number: NaN, or the rational n / d with d a power of ten
NaN == [nan |-> TRUE, n |-> 0, d |-> 1]
Rat(n, d) == [nan |-> FALSE, n |-> n, d |-> d]

Digits == <<"0", "1", "2", "3", "4", "5", "6", "7", "8", "9">>

IsDigit(c) == \E i \in 1..10 : Digits[i] = c

DigitVal(c) == (CHOOSE i \in 1..10 : Digits[i] = c) - 1

IsWhiteSpace(c) == c = " "

RECURSIVE NatToString(_)
NatToString(n) ==
    IF n < 10 THEN <<Digits[n + 1]>>
    ELSE NatToString(n \div 10) \o <<Digits[(n % 10) + 1]>>

\* ToString of a value (integers only among the numbers)
ToString(x) ==
    CASE x.t = "string" -> x.s
      [] x.t = "number" -> IF x.v < 0 THEN <<"-">> \o NatToString(0 - x.v)
                           ELSE NatToString(x.v)
      [] OTHER -> <<"u", "n", "d", "e", "f", "i", "n", "e", "d">>

RECURSIVE TrimStart(_)
TrimStart(s) ==
    IF s # <<>> /\ IsWhiteSpace(Head(s)) THEN TrimStart(Tail(s)) ELSE s

\* number of leading decimal digits of s
RECURSIVE DigitRun(_)
DigitRun(s) ==
    IF s # <<>> /\ IsDigit(Head(s)) THEN 1 + DigitRun(Tail(s)) ELSE 0

\* value of a sequence of digits, most significant first
RECURSIVE DigitsValue(_)
DigitsValue(s) ==
    IF s = <<>> THEN 0
    ELSE DigitsValue(SubSeq(s, 1, Len(s) - 1)) * 10 + DigitVal(s[Len(s)])

RECURSIVE Pow10(_)
Pow10(k) == IF k = 0 THEN 1 ELSE 10 * Pow10(k - 1)

\* the digits after a decimal point that follows the ip leading digits of s
FractionRun(s, ip) ==
    IF ip < Len(s) /\ s[ip + 1] = "." THEN DigitRun(SubSeq(s, ip + 2, Len(s)))
    ELSE 0

\* the number written by ip digits, optionally a point and fp digits
MakeNumber(s, ip, fp) ==
    IF ip = 0 /\ fp = 0 THEN NaN
    ELSE Rat(DigitsValue(SubSeq(s, 1, ip) \o SubSeq(s, ip + 2, ip + 1 + fp)),
             Pow10(fp))

ParseFraction(s, ip) == MakeNumber(s, ip, FractionRun(s, ip))

\* the longest prefix of s that is an unsigned decimal literal
\* (digits, digits '.' digits, '.' digits), as a rational; NaN if none
ParseUnsigned(s) == ParseFraction(s, DigitRun(s))

HasSign(s) == s # <<>> /\ (Head(s) = "-" \/ Head(s) = "+")

WithSign(negative, u) ==
    IF negative /\ ~u.nan THEN Rat(0 - u.n, u.d) ELSE u

ParseSigned(s) ==
    WithSign(s # <<>> /\ Head(s) = "-",
             ParseUnsigned(IF HasSign(s) THEN Tail(s) ELSE s))

\* parseFloat: ToString, skip leading white space, optional sign, then the
\* longest decimal prefix (exponents and "Infinity" are outside the inputs)
parseFloat(x) == ParseSigned(TrimStart(ToString(x)))

\* a <= b on numbers: false when either side is NaN
NumLeq(a, b) == ~a.nan /\ ~b.nan /\ a.n * b.d <= b.n * a.d

(***************************************************************************)
(* String.prototype.localeCompare on letters: the collation compares the   *)
(* letters case-blind first (primary strength) and, when that ties, by the *)
(* first difference of case, lower case first (tertiary strength).         *)
(***************************************************************************)
Lower == <<"a", "b", "c", "d", "e", "f", "g", "h", "i", "j", "k", "l", "m",
           "n", "o", "p", "q", "r", "s", "t", "u", "v", "w", "x", "y", "z">>
Upper == <<"A", "B", "C", "D", "E", "F", "G", "H", "I", "J", "K", "L", "M",
           "N", "O", "P", "Q", "R", "S", "T", "U", "V", "W", "X", "Y", "Z">>

Primary(c) == CHOOSE i \in 1..26 : Lower[i] = c \/ Upper[i] = c

Tertiary(c) == IF \E i \in 1..26 : Upper[i] = c THEN 1 ELSE 0

\* lexicographic three-way comparison of two sequences of integers
RECURSIVE LexCompare(_, _)
LexCompare(a, b) ==
    IF a = <<>> /\ b = <<>> THEN 0
    ELSE IF a = <<>> THEN -1
    ELSE IF b = <<>> THEN 1
    ELSE IF Head(a) < Head(b) THEN -1
    ELSE IF Head(a) > Head(b) THEN 1
    ELSE LexCompare(Tail(a), Tail(b))

collate(a, b) ==
    LET p == LexCompare([i \in 1..Len(a) |-> Primary(a[i])],
                        [i \in 1..Len(b) |-> Primary(b[i])])
    IN  IF p # 0 THEN p
        ELSE LexCompare([i \in 1..Len(a) |-> Tertiary(a[i])],
                        [i \in 1..Len(b) |-> Tertiary(b[i])])

\* x.localeCompare(y): throws when x is undefined, converts y to a string
localeCompare(x, y) ==
    IF x.t # "string" THEN [ok |-> FALSE, val |-> 0]
    ELSE [ok |-> TRUE, val |-> collate(x.s, ToString(y))]

(***************************************************************************)
(* Product objects (scripts/products.js) and the values a caller passes    *)
(***************************************************************************)
Product(id, name, price, image) ==
    [id |-> id, name |-> name, price |-> price, image |-> image]

\* the (price, name) pairs the input objects are drawn from: prices stored
\* as numbers and as numeric strings, a decimal, a price that does not
\* parse, a missing price and a missing name; names that differ by case
\* only, and names on both sides of the string "undefined"
Pool ==
    << [price |-> Num(100),                  name |-> Str(<<"z">>)],
       [price |-> Str(<<"2", "5">>),         name |-> Str(<<"a">>)],
       [price |-> Str(<<"1", "0", "0">>),    name |-> Str(<<"B">>)],
       [price |-> Num(25),                   name |-> Str(<<"a">>)],
       [price |-> Str(<<"a", "b", "c">>),    name |-> Str(<<"A">>)],
       [price |-> Str(<<"9", ".", "5">>),    name |-> Undefined],
       [price |-> Undefined,                 name |-> Str(<<"a", "b">>)] >>

\* values that are not arrays
NonArrays == {"null", "number", "object"}

ArrayRef(r) == [isArray |-> TRUE, ref |-> r, kind |-> "array"]
NonArray(k) == [isArray |-> FALSE, ref |-> 0, kind |-> k]

\* how a call ended
NoResult == [kind |-> "none", ref |-> 0, error |-> ""]
Returned(r) == [kind |-> "array", ref |-> r, error |-> ""]
Thrown(e) == [kind |-> "throw", ref |-> 0, error |-> e]

SortKeys == {"price", "name"}

(***************************************************************************)
(* merge (ui-admin.js 456-495).  left and right are the contents of two    *)
(* arrays: sequences of object references into the heap h.  Indices are    *)
(* 1-based here, 0-based in the source.                                    *)
(***************************************************************************)
\* comparison with the price test the wrong way round (>= for <=)
comparisonDescending(l, r, sortBy) ==
    IF sortBy = "price"
    THEN [ok |-> TRUE,
          val |-> IF NumLeq(parseFloat(r.price), parseFloat(l.price)) THEN -1 ELSE 1]
    ELSE localeCompare(l.name, r.name)

\* comparison with < for <= in the price test: a tie goes to the right
comparisonStrict(l, r, sortBy) ==
    IF sortBy = "price"
    THEN [ok |-> TRUE,
          val |-> IF NumLeq(parseFloat(l.price), parseFloat(r.price))
                     /\ ~NumLeq(parseFloat(r.price), parseFloat(l.price))
                  THEN -1 ELSE 1]
    ELSE localeCompare(l.name, r.name)

\* lines 463-471: the comparison of the two heads; ok is FALSE when
\* localeCompare is called on undefined (a TypeError)
comparison(l, r, sortBy) ==
    IF sortBy = "price"
    THEN [ok |-> TRUE,
          val |-> IF NumLeq(parseFloat(l.price), parseFloat(r.price)) THEN -1 ELSE 1]
    ELSE localeCompare(l.name, r.name)

\* lines 462-480: the first loop
RECURSIVE mergeLoop(_, _, _, _, _, _, _)
mergeLoop(h, left, right, leftIndex, rightIndex, res, sortBy) ==
    IF leftIndex <= Len(left) /\ rightIndex <= Len(right)
    THEN LET c == comparison(h[left[leftIndex]], h[right[rightIndex]], sortBy)
         IN  IF ~c.ok
             THEN [ok |-> FALSE, leftIndex |-> leftIndex,
                   rightIndex |-> rightIndex, res |-> res]
             ELSE IF c.val <= 0
             THEN mergeLoop(h, left, right, leftIndex + 1, rightIndex,
                            Append(res, left[leftIndex]), sortBy)
             ELSE mergeLoop(h, left, right, leftIndex, rightIndex + 1,
                            Append(res, right[rightIndex]), sortBy)
    ELSE [ok |-> TRUE, leftIndex |-> leftIndex,
          rightIndex |-> rightIndex, res |-> res]

\* pushRemaining with the loop left out
pushNothing(res, arr, index) == res

\* pushRemaining starting again at the first element
pushRemainingFromStart(res, arr, index) == res \o arr

\* lines 483-486 and 489-492: push what is left of one array
pushRemaining(res, arr, index) == res \o SubSeq(arr, index, Len(arr))

merge(h, left, right, sortBy) ==
    LET m == mergeLoop(h, left, right, 1, 1, <<>>, sortBy)
    IN  IF ~m.ok THEN [ok |-> FALSE, val |-> <<>>]
        ELSE [ok |-> TRUE,
              val |-> pushRemaining(pushRemaining(m.res, left, m.leftIndex),
                                    right, m.rightIndex)]

\* Array.prototype.slice(start, end) with 0 <= start <= end <= length
slice(items, start, end) == SubSeq(items, start + 1, end)

(***************************************************************************)
(* mergeSort (ui-admin.js 503-522) on the contents of an array.  same is   *)
(* TRUE when the array returned is the argument itself (line 506).         *)
(***************************************************************************)
RECURSIVE mergeSort(_, _, _)
mergeSort(h, items, sortBy) ==
    IF Len(items) <= 1
    THEN [ok |-> TRUE, val |-> items, same |-> TRUE]
    ELSE LET middle == Len(items) \div 2
             left == slice(items, 0, middle)
             right == slice(items, middle, Len(items))
             sortedLeft == mergeSort(h, left, sortBy)
             sortedRight == mergeSort(h, right, sortBy)
         IN  IF ~sortedLeft.ok \/ ~sortedRight.ok
             THEN [ok |-> FALSE, val |-> <<>>, same |-> FALSE]
             ELSE LET m == merge(h, sortedLeft.val, sortedRight.val, sortBy)
                  IN  [ok |-> m.ok, val |-> m.val, same |-> FALSE]

(***************************************************************************)
(* Calls, with their effect on the heap.  Each returns the heap after the  *)
(* call and how the call ended.                                            *)
(***************************************************************************)
\* callMergeSort writing the sorted order back into the array it was given
callMergeSortInPlace(o, a, items, sortBy) ==
    IF ~items.isArray
    THEN [objs |-> o, arrs |-> a, result |-> Thrown("TypeError")]
    ELSE LET r == mergeSort(o, a[items.ref], sortBy)
         IN  IF ~r.ok THEN [objs |-> o, arrs |-> a, result |-> Thrown("TypeError")]
             ELSE [objs |-> o, arrs |-> [a EXCEPT ![items.ref] = r.val],
                   result |-> Returned(items.ref)]

\* a call of mergeSort on a caller's value: reading .length of null, or
\* calling .slice on a number or a plain object, is a TypeError
callMergeSort(o, a, items, sortBy) ==
    IF ~items.isArray
    THEN [objs |-> o, arrs |-> a, result |-> Thrown("TypeError")]
    ELSE LET r == mergeSort(o, a[items.ref], sortBy)
         IN  IF ~r.ok THEN [objs |-> o, arrs |-> a, result |-> Thrown("TypeError")]
             ELSE IF r.same THEN [objs |-> o, arrs |-> a, result |-> Returned(items.ref)]
             ELSE [objs |-> o, arrs |-> Append(a, r.val),
                   result |-> Returned(Len(a) + 1)]

\* products.map(p => new Product(p.id, p.name, p.price, p.image)): the new
\* objects, allocated after the n objects of the heap
copyProducts(o, items) ==
    [i \in 1..Len(items) |->
        Product(o[items[i]].id, o[items[i]].name, o[items[i]].price,
                o[items[i]].image)]

\* sortCopy returning the caller's own array when it is empty
sortCopyReturningInput(o, a, products, sortBy) ==
    IF ~products.isArray
    THEN [objs |-> o, arrs |-> Append(a, <<>>), result |-> Returned(Len(a) + 1)]
    ELSE IF Len(a[products.ref]) = 0
    THEN [objs |-> o, arrs |-> a, result |-> Returned(products.ref)]
    ELSE LET items == a[products.ref]
             o2 == o \o copyProducts(o, items)
             a2 == Append(a, [i \in 1..Len(items) |-> Len(o) + i])
         IN  callMergeSort(o2, a2, ArrayRef(Len(a2)), sortBy)

\* sortCopy without the Array.isArray test: reading a property of null, or
\* calling .map on a value that has none, is a TypeError
sortCopyUnguarded(o, a, products, sortBy) ==
    IF ~products.isArray
    THEN [objs |-> o, arrs |-> a, result |-> Thrown("TypeError")]
    ELSE IF Len(a[products.ref]) = 0
    THEN [objs |-> o, arrs |-> Append(a, <<>>), result |-> Returned(Len(a) + 1)]
    ELSE LET items == a[products.ref]
             o2 == o \o copyProducts(o, items)
             a2 == Append(a, [i \in 1..Len(items) |-> Len(o) + i])
         IN  callMergeSort(o2, a2, ArrayRef(Len(a2)), sortBy)

\* the body shared by sortByPrice and sortByName
sortCopy(o, a, products, sortBy) ==
    IF ~products.isArray \/ Len(a[products.ref]) = 0
    THEN [objs |-> o, arrs |-> Append(a, <<>>), result |-> Returned(Len(a) + 1)]
    ELSE LET items == a[products.ref]
             o2 == o \o copyProducts(o, items)
             a2 == Append(a, [i \in 1..Len(items) |-> Len(o) + i])
         IN  callMergeSort(o2, a2, ArrayRef(Len(a2)), sortBy)

sortByPrice(o, a, products) == sortCopy(o, a, products, "price")

sortByName(o, a, products) == sortCopy(o, a, products, "name")

\* the call named by c, applied to the value x
Apply(c, o, a, x) ==
    CASE c.fn = "sortByPrice" -> sortByPrice(o, a, x)
      [] c.fn = "sortByName" -> sortByName(o, a, x)
      [] OTHER -> callMergeSort(o, a, x, c.sortBy)

(***************************************************************************)
(* The state machine: a caller holds a value (input), calls one of the     *)
(* three exported functions on it, and may call the same function on the   *)
(* array it got back.                                                      *)
(***************************************************************************)
Image == "assets/1.jpg"

NoCall == [fn |-> "none", sortBy |-> "none"]

Init ==
    /\ \/ \E n \in 0..MaxLen : \E f \in [1..n -> 1..Len(Pool)] :
            /\ objs = [i \in 1..n |-> Product(i, Pool[f[i]].name, Pool[f[i]].price, Image)]
            /\ arrs = << [i \in 1..n |-> i] >>
            /\ input = ArrayRef(1)
       \/ \E k \in NonArrays :
            /\ objs = <<>>
            /\ arrs = <<>>
            /\ input = NonArray(k)
    /\ call = NoCall
    /\ result = NoResult
    /\ again = NoResult
    /\ pc = "ready"
    /\ StepsIdle
    /\ StoreIdle
    /\ CartIdle

CallSortByPrice ==
    /\ pc = "ready"
    /\ LET r == sortByPrice(objs, arrs, input)
       IN  /\ objs' = r.objs
           /\ arrs' = r.arrs
           /\ result' = r.result
    /\ call' = [fn |-> "sortByPrice", sortBy |-> "price"]
    /\ pc' = "returned"
    /\ UNCHANGED <<input, again, stepVars, storeVars, cartVars>>

CallSortByName ==
    /\ pc = "ready"
    /\ LET r == sortByName(objs, arrs, input)
       IN  /\ objs' = r.objs
           /\ arrs' = r.arrs
           /\ result' = r.result
    /\ call' = [fn |-> "sortByName", sortBy |-> "name"]
    /\ pc' = "returned"
    /\ UNCHANGED <<input, again, stepVars, storeVars, cartVars>>

CallMergeSort ==
    /\ pc = "ready"
    /\ \E k \in SortKeys :
          /\ LET r == callMergeSort(objs, arrs, input, k)
             IN  /\ objs' = r.objs
                 /\ arrs' = r.arrs
                 /\ result' = r.result
          /\ call' = [fn |-> "mergeSort", sortBy |-> k]
    /\ pc' = "returned"
    /\ UNCHANGED <<input, again, stepVars, storeVars, cartVars>>

\* the caller sorts the array it got back, with the same function
SortAgain ==
    /\ pc = "returned"
    /\ result.kind = "array"
    /\ LET r == Apply(call, objs, arrs, ArrayRef(result.ref))
       IN  /\ objs' = r.objs
           /\ arrs' = r.arrs
           /\ again' = r.result
    /\ pc' = "resorted"
    /\ UNCHANGED <<input, call, result, stepVars, storeVars, cartVars>>

Next == CallSortByPrice \/ CallSortByName \/ CallMergeSort \/ SortAgain

Spec == Init /\ [][Next]_vars

(***************************************************************************)
(* Vocabulary of the properties                                            *)
(***************************************************************************)
\* the objects an array holds, in order
Elements(r) == [i \in 1..Len(arrs[r]) |-> objs[arrs[r][i]]]

In == Elements(input.ref)
Out == Elements(result.ref)
Out2 == Elements(again.ref)

\* a first call on an array has returned an array
Sorted(k) ==
    /\ pc # "ready"
    /\ input.isArray
    /\ result.kind = "array"
    /\ call.sortBy = k

ValidKey(p, k) ==
    IF k = "price" THEN ~parseFloat(p.price).nan ELSE p.name.t = "string"

AllValid(seq, k) == \A i \in 1..Len(seq) : ValidKey(seq[i], k)

\* key(a) <= key(b) under the comparison of key k
KeyLeq(a, b, k) ==
    IF k = "price" THEN NumLeq(parseFloat(a.price), parseFloat(b.price))
    ELSE a.name.t = "string" /\ b.name.t = "string"
         /\ collate(a.name.s, b.name.s) <= 0

KeyEqual(a, b, k) == KeyLeq(a, b, k) /\ KeyLeq(b, a, k)

Count(seq, v) == Cardinality({i \in 1..Len(seq) : seq[i] = v})

SameMultiset(s1, s2) ==
    /\ Len(s1) = Len(s2)
    /\ \A i \in 1..Len(s1) : Count(s1, s1[i]) = Count(s2, s1[i])

\* the position in seq of the object with the given id (ids are distinct)
PosOf(seq, id) == CHOOSE i \in 1..Len(seq) : seq[i].id = id

IsOrdered(seq, k) == \A i \in 1..(Len(seq) - 1) : KeyLeq(seq[i], seq[i + 1], k)

IsStable(in, out, k) ==
    \A i, j \in 1..Len(in) :
        (i < j /\ KeyEqual(in[i], in[j], k))
            => PosOf(out, in[i].id) < PosOf(out, in[j].id)

(***************************************************************************)
(* Properties                                                              *)
(***************************************************************************)
\* C1: when every element of the input has a valid key (a price that parses,
\* a name that is a string), every adjacent pair (a, b) of the array a sort
\* by key k returns satisfies key(a) <= key(b).
OrderInvariant ==
    \A k \in SortKeys :
        (Sorted(k) /\ AllValid(In, k)) => IsOrdered(Out, k)

\* a sort of valid keys returned an array that is not in the input's order
OrderWitness ==
    \E k \in SortKeys :
        /\ Sorted(k) /\ AllValid(In, k)
        /\ Len(In) = MaxLen
        /\ ~IsOrdered(In, k)
        /\ \E i \in 1..(Len(Out) - 1) : ~KeyLeq(Out[i + 1], Out[i], k)

\* C2: the array a sort returns has the length of the input and holds the
\* same multiset of elements, field for field; mergeSort returns the very
\* objects it was given.
PermutationInvariant ==
    (pc # "ready" /\ input.isArray /\ result.kind = "array")
        => /\ SameMultiset(In, Out)
           /\ call.fn = "mergeSort"
                 => SameMultiset(arrs[input.ref], arrs[result.ref])

\* a sort moved elements, and one side of a merge ran out first
PermutationWitness ==
    /\ pc # "ready" /\ input.isArray /\ result.kind = "array"
    /\ Len(In) = MaxLen
    /\ In # Out
    /\ \E i, j \in 1..Len(In) : i # j /\ In[i].price = In[j].price

\* C3 (as stated): any two elements of the input whose keys compare equal
\* appear in the returned array in the order they had in the input.
Stability ==
    \A k \in SortKeys : Sorted(k) => IsStable(In, Out, k)

\* stability when every element of the input has a valid key
StabilityOnValidKeys ==
    \A k \in SortKeys : (Sorted(k) /\ AllValid(In, k)) => IsStable(In, Out, k)

\* C4: no call changes an array or an object that existed before it: the
\* caller's array keeps its length and order and its elements keep every
\* field.
NonMutation ==
    [][ /\ \A r \in DOMAIN arrs : r \in DOMAIN arrs' /\ arrs'[r] = arrs[r]
        /\ \A r \in DOMAIN objs : r \in DOMAIN objs' /\ objs'[r] = objs[r] ]_vars

\* a sort returned an array in another order than the caller's array
NonMutationWitness ==
    /\ pc # "ready" /\ input.isArray /\ result.kind = "array"
    /\ Len(In) = MaxLen
    /\ \E i \in 1..Len(In) : In[i].id # Out[i].id

\* C5 (as stated): sorting the array a sort returned, by the same key,
\* returns an array equal to it element for element.
Idempotence ==
    (pc = "resorted") => (again.kind = "array" /\ Out2 = Out)

\* idempotence when every element of the input has a valid key
IdempotenceOnValidKeys ==
    (pc = "resorted" /\ input.isArray /\ AllValid(In, call.sortBy))
        => (again.kind = "array" /\ Out2 = Out)

\* C6 (as stated): for an input of length 0 or 1 every sort, mergeSort
\* included, returns a new array equal to the input.
EmptySingletonIsNewCopy ==
    (pc # "ready" /\ input.isArray /\ Len(In) <= 1)
        => /\ result.kind = "array"
           /\ Out = In
           /\ result.ref # input.ref

\* C6 (amended): for an input of length 0 or 1 every sort returns an array
\* equal to the input; sortByPrice and sortByName return a new array,
\* mergeSort returns the array it was given.
EmptySingleton ==
    (pc # "ready" /\ input.isArray /\ Len(In) <= 1)
        => /\ result.kind = "array"
           /\ Out = In
           /\ call.fn \in {"sortByPrice", "sortByName"} => result.ref # input.ref
           /\ call.fn = "mergeSort" => result.ref = input.ref

\* sortByName has returned a new array from a call on a one-element array
EmptySingletonWitness ==
    /\ pc = "returned" /\ input.isArray /\ Len(In) = 1
    /\ call.fn = "sortByName"
    /\ result.kind = "array" /\ result.ref # input.ref

\* C7 (as stated): a sort by price of an array that holds an element whose
\* price does not parse as a number fails, returning no result.
InvalidPriceFails ==
    (pc # "ready" /\ input.isArray /\ call.sortBy = "price"
        /\ \E i \in 1..Len(In) : In[i].price.t = "string" /\ parseFloat(In[i].price).nan)
        => result.kind = "throw"

\* C8 (as stated): a sort by key k of an array in which some element lacks
\* attribute k fails (any exception is taken for the failure), whatever the
\* length and the key.
MissingKeyFails ==
    \A k \in SortKeys :
        (pc # "ready" /\ input.isArray /\ call.sortBy = k
            /\ \E i \in 1..Len(In) :
                  (IF k = "price" THEN In[i].price ELSE In[i].name) = Undefined)
            => result.kind = "throw"

\* C9 (as stated): sortByPrice and sortByName called on a value that is not
\* an array fail instead of returning a result.
NonArrayFails ==
    (pc # "ready" /\ ~input.isArray /\ call.fn \in {"sortByPrice", "sortByName"})
        => result.kind = "throw"

\* C9 (amended): sortByPrice and sortByName called on a value that is not
\* an array raise no error: they return a new, empty array.
NonArrayReturnsEmpty ==
    (pc # "ready" /\ ~input.isArray /\ call.fn \in {"sortByPrice", "sortByName"})
        => /\ result.kind = "array"
           /\ arrs[result.ref] = <<>>

\* sortByPrice has returned from a call on a value that is not an array
NonArrayWitness ==
    /\ pc = "returned" /\ ~input.isArray
    /\ call.fn = "sortByPrice"
    /\ result.kind # "none"

\* C10 (as stated): in the array a sort by price returns, of any two
\* elements whose prices denote numbers the one with the smaller number
\* comes first.
NumericOrder ==
    Sorted("price") =>
        \A i, j \in 1..Len(Out) :
            (/\ ValidKey(Out[i], "price") /\ ValidKey(Out[j], "price")
             /\ ~KeyLeq(Out[j], Out[i], "price"))
                => i < j

\* numeric order when every price of the input denotes a number
NumericOrderOnValidKeys ==
    (Sorted("price") /\ AllValid(In, "price")) =>
        \A i, j \in 1..Len(Out) : ~KeyLeq(Out[j], Out[i], "price") => i < j

(***************************************************************************)
(* mergeSort step by step.  An invocation is a stack of activation records *)
(* (the last one is running); a step is the entry of a call (base case or  *)
(* split and first recursive call), one iteration of merge's first loop,   *)
(* or the rest of merge with its return.  Several invocations, each on its *)
(* own array, take their steps in any order.                               *)
(***************************************************************************)
\* total length of the arrays handed to the invocations
MaxTotal == 4

Callers == {1, 2}

\* the (price, name) pairs of the step-by-step inputs: two valid records and
\* one whose price does not parse and whose name is missing
StepPool ==
    << [price |-> Num(100),               name |-> Str(<<"B">>)],
       [price |-> Str(<<"2", "5">>),      name |-> Str(<<"a">>)],
       [price |-> Str(<<"a", "b", "c">>), name |-> Undefined] >>

\* the activation record of mergeSort(items) at its entry, with the locals
\* of the merge it will run (lines 457-459)
Frame(items) ==
    [items |-> items, phase |-> "call", left |-> <<>>, right |-> <<>>,
     sortedLeft |-> <<>>, sortedRight |-> <<>>,
     leftIndex |-> 1, rightIndex |-> 1, result |-> <<>>, comparisons |-> 0]

NoReturn == [kind |-> "none", val |-> <<>>]
ReturnedArray(v) == [kind |-> "array", val |-> v]
ThrownError == [kind |-> "throw", val |-> <<>>]

NoMerge ==
    [done |-> FALSE, left |-> <<>>, right |-> <<>>, leftIndex |-> 1,
     rightIndex |-> 1, loopResult |-> <<>>, val |-> <<>>, comparisons |-> 0]

\* the middle rounded up
middleCeiling(items) == (Len(items) + 1) \div 2

\* the whole array as its own left half
middleAtEnd(items) == Len(items)

\* line 510
middle(items) == Len(items) \div 2

\* lines 510-514: the two halves, before the first recursive call
split(f) ==
    [f EXCEPT !.left = slice(f.items, 0, middle(f.items)),
              !.right = slice(f.items, middle(f.items), Len(f.items)),
              !.phase = "sortLeft"]

Top(stack) == stack[Len(stack)]

Pop(stack) == SubSeq(stack, 1, Len(stack) - 1)

ReplaceTop(stack, f) == [stack EXCEPT ![Len(stack)] = f]

\* a call returns val to the record below it: after the left half the
\* right half is sorted (line 518), after the right half merge starts
\* (line 521)
deliver(stack, val) ==
    IF stack = <<>> THEN <<>>
    ELSE IF Top(stack).phase = "sortLeft"
    THEN Append(ReplaceTop(stack, [Top(stack) EXCEPT !.sortedLeft = val,
                                                      !.phase = "sortRight"]),
                Frame(Top(stack).right))
    ELSE ReplaceTop(stack, [Top(stack) EXCEPT !.sortedRight = val,
                                              !.phase = "merge"])

\* lines 473-479: push the head the comparison chose
pushHead(f, c) ==
    IF ~c.ok THEN [kind |-> "throw", compared |-> 1, frame |-> f]
    ELSE IF c.val <= 0
    THEN [kind |-> "loop", compared |-> 1,
          frame |-> [f EXCEPT !.result = Append(@, f.sortedLeft[f.leftIndex]),
                              !.leftIndex = @ + 1,
                              !.comparisons = @ + 1]]
    ELSE [kind |-> "loop", compared |-> 1,
          frame |-> [f EXCEPT !.result = Append(@, f.sortedRight[f.rightIndex]),
                              !.rightIndex = @ + 1,
                              !.comparisons = @ + 1]]

\* merge in the textbook form with a sentinel after each half: a comparison
\* is made for every element pushed, also when one half is exhausted
mergeStepSentinel(h, f, sortBy) ==
    IF f.leftIndex <= Len(f.sortedLeft) /\ f.rightIndex <= Len(f.sortedRight)
    THEN pushHead(f, comparison(h[f.sortedLeft[f.leftIndex]],
                                h[f.sortedRight[f.rightIndex]], sortBy))
    ELSE IF f.leftIndex <= Len(f.sortedLeft)
    THEN pushHead(f, [ok |-> TRUE, val |-> -1])
    ELSE IF f.rightIndex <= Len(f.sortedRight)
    THEN pushHead(f, [ok |-> TRUE, val |-> 1])
    ELSE [kind |-> "return", compared |-> 0, frame |-> f]

\* one step of merge (lines 462-494): an iteration of the first loop, or
\* the two remaining loops and the return
mergeStep(h, f, sortBy) ==
    IF f.leftIndex <= Len(f.sortedLeft) /\ f.rightIndex <= Len(f.sortedRight)
    THEN pushHead(f, comparison(h[f.sortedLeft[f.leftIndex]],
                                h[f.sortedRight[f.rightIndex]], sortBy))
    ELSE [kind |-> "return", compared |-> 0,
          frame |-> [f EXCEPT !.result =
                        pushRemaining(pushRemaining(f.result, f.sortedLeft,
                                                    f.leftIndex),
                                      f.sortedRight, f.rightIndex)]]

\* result as one array shared by every invocation: a push by one
\* invocation shows in every merge under way
storeShared(fs, c, stack) ==
    [d \in DOMAIN fs |->
        IF d = c THEN stack
        ELSE IF stack # <<>> /\ Top(stack).phase = "merge"
                /\ fs[d] # <<>> /\ Top(fs[d]).phase = "merge"
        THEN ReplaceTop(fs[d], [Top(fs[d]) EXCEPT !.result = Top(stack).result])
        ELSE fs[d]]

\* the locals of an invocation belong to it alone
store(fs, c, stack) == [fs EXCEPT ![c] = stack]

InitSteps ==
    /\ \E n1, n2 \in 0..MaxTotal :
          /\ n1 + n2 <= MaxTotal
          /\ \E f \in [1..(n1 + n2) -> 1..Len(StepPool)] :
                objs = [i \in 1..(n1 + n2) |->
                          Product(i, StepPool[f[i]].name, StepPool[f[i]].price, Image)]
          /\ stepIn = [c \in Callers |->
                          IF c = 1 THEN [i \in 1..n1 |-> i]
                          ELSE [i \in 1..n2 |-> n1 + i]]
    /\ stepKey \in [Callers -> SortKeys]
    /\ frames = [c \in Callers |-> <<Frame(stepIn[c])>>]
    /\ ret = [c \in Callers |-> NoReturn]
    /\ compares = [c \in Callers |-> 0]
    /\ lastMerge = [c \in Callers |-> NoMerge]
    /\ arrs = <<>>
    /\ input = NonArray("null")
    /\ call = NoCall
    /\ result = NoResult
    /\ again = NoResult
    /\ pc = "steps"
    /\ StoreIdle
    /\ CartIdle

\* lines 505-507: the base case returns its argument
BaseCase ==
    \E c \in Callers :
        /\ frames[c] # <<>>
        /\ Top(frames[c]).phase = "call"
        /\ Len(Top(frames[c]).items) <= 1
        /\ frames' = store(frames, c, deliver(Pop(frames[c]), Top(frames[c]).items))
        /\ ret' = IF Len(frames[c]) = 1
                  THEN [ret EXCEPT ![c] = ReturnedArray(Top(frames[c]).items)]
                  ELSE ret
        /\ UNCHANGED <<stepIn, stepKey, compares, lastMerge, callVars, storeVars, cartVars>>

\* lines 510-517: split and call mergeSort on the left half
Split ==
    \E c \in Callers :
        /\ frames[c] # <<>>
        /\ Top(frames[c]).phase = "call"
        /\ Len(Top(frames[c]).items) > 1
        /\ frames' = store(frames, c,
                           Append(ReplaceTop(frames[c], split(Top(frames[c]))),
                                  Frame(split(Top(frames[c])).left)))
        /\ UNCHANGED <<stepIn, stepKey, ret, compares, lastMerge, callVars, storeVars, cartVars>>

\* lines 462-480: one iteration of the first loop of merge; a TypeError
\* ends the whole invocation
Compare ==
    \E c \in Callers :
        /\ frames[c] # <<>>
        /\ Top(frames[c]).phase = "merge"
        /\ \E m \in {mergeStep(objs, Top(frames[c]), stepKey[c])} :
               /\ m.kind # "return"
               /\ frames' = store(frames, c,
                                  IF m.kind = "throw" THEN <<>>
                                  ELSE ReplaceTop(frames[c], m.frame))
               /\ ret' = IF m.kind = "throw" THEN [ret EXCEPT ![c] = ThrownError]
                         ELSE ret
               /\ compares' = [compares EXCEPT ![c] = @ + m.compared]
        /\ UNCHANGED <<stepIn, stepKey, lastMerge, callVars, storeVars, cartVars>>

\* lines 482-494: push what remains and return the merged array
MergeReturn ==
    \E c \in Callers :
        /\ frames[c] # <<>>
        /\ Top(frames[c]).phase = "merge"
        /\ \E m \in {mergeStep(objs, Top(frames[c]), stepKey[c])} :
               /\ m.kind = "return"
               /\ frames' = store(frames, c, deliver(Pop(frames[c]), m.frame.result))
               /\ ret' = IF Len(frames[c]) = 1
                         THEN [ret EXCEPT ![c] = ReturnedArray(m.frame.result)]
                         ELSE ret
               /\ lastMerge' = [lastMerge EXCEPT ![c] =
                     [done |-> TRUE,
                      left |-> m.frame.sortedLeft, right |-> m.frame.sortedRight,
                      leftIndex |-> m.frame.leftIndex,
                      rightIndex |-> m.frame.rightIndex,
                      loopResult |-> Top(frames[c]).result,
                      val |-> m.frame.result,
                      comparisons |-> m.frame.comparisons]]
        /\ UNCHANGED <<stepIn, stepKey, compares, callVars, storeVars, cartVars>>

NextSteps == BaseCase \/ Split \/ Compare \/ MergeReturn

SpecSteps == InitSteps /\ [][NextSteps]_vars

\* one invocation on an array of the last two records of StepPool, the
\* other on an empty array
InitOne ==
    /\ InitSteps
    /\ stepIn[2] = <<>>
    /\ stepKey[2] = stepKey[1]
    /\ \A i \in 1..Len(objs) : objs[i].price # StepPool[1].price

\* a call that has started runs on: the sort is synchronous
SpecStepsFair == InitOne /\ [][NextSteps]_vars /\ WF_vars(NextSteps)

(***************************************************************************)
(* Properties of the step-by-step invocations                              *)
(***************************************************************************)
\* what mergeSort returns for invocation c when it runs by itself
Alone(c) == mergeSort(objs, stepIn[c], stepKey[c])

AllEnded == \A c \in Callers : ret[c].kind # "none"

\* C11: invocations on independent arrays, their steps taken in any order,
\* each end as the same call ends when run alone, and no step changes an
\* input array, an object or a result already returned.
IndependentInvocations ==
    /\ [](\A c \in Callers :
            ret[c].kind # "none" =>
                ret[c] = IF Alone(c).ok THEN ReturnedArray(Alone(c).val)
                         ELSE ThrownError)
    /\ [][ /\ stepIn' = stepIn
           /\ objs' = objs
           /\ \A c \in Callers : ret[c].kind # "none" => ret'[c] = ret[c] ]_vars

\* both invocations have returned an array in another order than their input
IndependentWitness ==
    \A c \in Callers :
        /\ ret[c].kind = "array"
        /\ Len(stepIn[c]) >= 2
        /\ ret[c].val # stepIn[c]

RECURSIVE Pow2(_)
Pow2(k) == IF k = 0 THEN 1 ELSE 2 * Pow2(k - 1)

\* ceil(log2 n) for n >= 1
CeilLog2(n) == CHOOSE k \in 0..n : Pow2(k) >= n /\ (k = 0 \/ Pow2(k - 1) < n)

FrameSet(c) == {frames[c][i] : i \in 1..Len(frames[c])}

\* C12: an invocation on n >= 1 elements makes at most n * ceil(log2 n)
\* comparisons in all its merges together, and one merge of halves of
\* sizes a and b makes at most a + b - 1.
ComparisonBound ==
    \A c \in Callers :
        /\ Len(stepIn[c]) >= 1
              => compares[c] <= Len(stepIn[c]) * CeilLog2(Len(stepIn[c]))
        /\ lastMerge[c].done
              => lastMerge[c].comparisons
                    <= Len(lastMerge[c].left) + Len(lastMerge[c].right) - 1
        /\ \A f \in FrameSet(c) :
              f.phase = "merge"
                  => f.comparisons <= Len(f.sortedLeft) + Len(f.sortedRight) - 1

\* an invocation on the longest array has returned after a top-level merge
\* that needed every comparison it may make
ComparisonWitness ==
    \E c \in Callers :
        /\ ret[c].kind = "array"
        /\ Len(stepIn[c]) = MaxTotal
        /\ compares[c] >= MaxTotal
        /\ lastMerge[c].comparisons = MaxTotal - 1

\* each call below the first is on a non-empty array shorter than its
\* caller's
HalvesShorter ==
    \A c \in Callers : \A i \in 2..Len(frames[c]) :
        /\ Len(frames[c][i].items) >= 1
        /\ Len(frames[c][i].items) < Len(frames[c][i - 1].items)

\* C13: every recursive call is on a non-empty, strictly shorter half, and
\* every invocation ends (it returns, or a TypeError ends it).
Termination == []HalvesShorter /\ <>AllEnded

\* an invocation on the longest array is three calls deep
TerminationWitness ==
    \E c \in Callers :
        /\ Len(stepIn[c]) = MaxTotal
        /\ Len(frames[c]) = 3
        /\ ret[c].kind = "none"

\* C14: in every call on n >= 2 elements the left half is the first
\* floor(n/2) elements and the right half the remaining ones, in their
\* order, and the recursive call under way is on one of the two.
PositionalSplit ==
    \A c \in Callers : \A i \in 1..Len(frames[c]) :
        frames[c][i].phase # "call" =>
            /\ Len(frames[c][i].items) >= 2
            /\ frames[c][i].left
                  = SubSeq(frames[c][i].items, 1, Len(frames[c][i].items) \div 2)
            /\ frames[c][i].right
                  = SubSeq(frames[c][i].items,
                           Len(frames[c][i].items) \div 2 + 1,
                           Len(frames[c][i].items))
            /\ (frames[c][i].phase = "sortLeft" /\ i < Len(frames[c]))
                  => frames[c][i + 1].items = frames[c][i].left
            /\ (frames[c][i].phase = "sortRight" /\ i < Len(frames[c]))
                  => frames[c][i + 1].items = frames[c][i].right

\* a call on three elements whose keys are not in order has been split
PositionalSplitWitness ==
    \E c \in Callers : \E i \in 1..Len(frames[c]) :
        /\ frames[c][i].phase = "sortRight"
        /\ Len(frames[c][i].items) = 3
        /\ Len(frames[c][i].left) = 1
        /\ ~IsOrdered([j \in 1..3 |-> objs[frames[c][i].items[j]]], stepKey[c])

\* the two heads compare equal: equal numbers, or localeCompare gives 0
HeadsTie(l, r, k) ==
    IF k = "price"
    THEN /\ ~parseFloat(l.price).nan /\ ~parseFloat(r.price).nan
         /\ parseFloat(l.price).n * parseFloat(r.price).d
               = parseFloat(r.price).n * parseFloat(l.price).d
    ELSE /\ l.name.t = "string" /\ r.name.t = "string"
         /\ collate(l.name.s, r.name.s) = 0

\* the top record of stack is inside merge's first loop with tied heads
TieAtHeads(stack, k) ==
    /\ stack # <<>>
    /\ Top(stack).phase = "merge"
    /\ Top(stack).leftIndex <= Len(Top(stack).sortedLeft)
    /\ Top(stack).rightIndex <= Len(Top(stack).sortedRight)
    /\ HeadsTie(objs[Top(stack).sortedLeft[Top(stack).leftIndex]],
                objs[Top(stack).sortedRight[Top(stack).rightIndex]], k)

\* C15: a step of merge taken when the two heads compare equal pushes the
\* head of the left half.
TieTakesLeft ==
    [][ \A c \in Callers :
          (TieAtHeads(frames[c], stepKey[c]) /\ frames'[c] # frames[c])
              => /\ frames'[c] # <<>>
                 /\ Top(frames'[c]).result
                       = Append(Top(frames[c]).result,
                                Top(frames[c]).sortedLeft[Top(frames[c]).leftIndex])
                 /\ Top(frames'[c]).rightIndex = Top(frames[c]).rightIndex ]_vars

\* a merge of two one-element halves with equal keys has returned
TieWitness ==
    \E c \in Callers :
        /\ lastMerge[c].done
        /\ Len(lastMerge[c].left) = 1 /\ Len(lastMerge[c].right) = 1
        /\ HeadsTie(objs[lastMerge[c].left[1]], objs[lastMerge[c].right[1]],
                    stepKey[c])
        /\ lastMerge[c].val = lastMerge[c].left \o lastMerge[c].right

\* the elements of seq that occur in arr, in the order of seq
Restrict(seq, arr) ==
    LET Member(x) == \E i \in 1..Len(arr) : arr[i] = x
    IN  SelectSeq(seq, Member)

\* C16: the array a merge returns holds every element of left and of right
\* once, those of left in their order and those of right in theirs, and it
\* is the result of the first loop, which ends when one half is exhausted,
\* followed by the rest of the other half.
MergeInterleaves ==
    \A c \in Callers :
        lastMerge[c].done =>
            /\ Len(lastMerge[c].val)
                  = Len(lastMerge[c].left) + Len(lastMerge[c].right)
            /\ Restrict(lastMerge[c].val, lastMerge[c].left) = lastMerge[c].left
            /\ Restrict(lastMerge[c].val, lastMerge[c].right) = lastMerge[c].right
            /\ \/ lastMerge[c].leftIndex > Len(lastMerge[c].left)
               \/ lastMerge[c].rightIndex > Len(lastMerge[c].right)
            /\ lastMerge[c].val
                  = lastMerge[c].loopResult
                    \o SubSeq(lastMerge[c].left, lastMerge[c].leftIndex,
                              Len(lastMerge[c].left))
                    \o SubSeq(lastMerge[c].right, lastMerge[c].rightIndex,
                              Len(lastMerge[c].right))

\* a merge of the halves of the longest array has returned, its first loop
\* having left an element of one half to be pushed after it
MergeWitness ==
    \E c \in Callers :
        /\ lastMerge[c].done
        /\ Len(lastMerge[c].val) = MaxTotal
        /\ Len(lastMerge[c].loopResult) < MaxTotal
        /\ lastMerge[c].val # lastMerge[c].left \o lastMerge[c].right

(***************************************************************************)
(* The catalog of scripts/backend.js (lines 7-202) over localStorage, with *)
(* defaultProducts of scripts/products.js.  An operation is an operator    *)
(* from the localStorage entry st and the array defaultProducts df to the  *)
(* two after the call, whether the call reported success, and the id of    *)
(* the product it returned (0 when it returned none).  Each call runs in   *)
(* an environment env that says whether localStorage can be read and       *)
(* whether setItem accepts a write or throws.                              *)
(***************************************************************************)
\* operations in one run
MaxOps == 2

DefaultProducts ==
    <<Product(1,
               Str(<<"K", "i", "s", "s", "a", "n", " ", "F", "r", "e", "s", "h",
                     " ", "T", "o", "m", "a", "t", "o", " ", "K", "e", "t", "c",
                     "h", "u", "p">>),
               Num(215),
               Str(<<"a", "s", "s", "e", "t", "s", "/", "1", ".", "j", "p", "g">>)),
       Product(2,
               Str(<<"D", "e", "l", " ", "M", "o", "n", "t", "e", " ", "T", "o",
                     "m", "a", "t", "o", " ", "K", "e", "t", "c", "h", "u", "p">>),
               Num(75),
               Str(<<"a", "s", "s", "e", "t", "s", "/", "2", ".", "j", "p", "g">>)),
       Product(3,
               Str(<<"V", "e", "e", "b", "a", " ", "T", "r", "u", "l", "y", " ",
                     "T", "o", "m", "a", "t", "o", " ", "K", "e", "t", "c", "h",
                     "u", "p">>),
               Num(140),
               Str(<<"a", "s", "s", "e", "t", "s", "/", "3", ".", "j", "p", "g">>)),
       Product(4,
               Str(<<"T", "a", "t", "a", " ", "S", "a", "l", "t">>),
               Num(25),
               Str(<<"a", "s", "s", "e", "t", "s", "/", "4", ".", "j", "p", "g">>)),
       Product(5,
               Str(<<"A", "a", "s", "h", "i", "r", "v", "a", "a", "d", " ", "I",
                     "o", "d", "i", "z", "e", "d", " ", "S", "a", "l", "t">>),
               Num(30),
               Str(<<"a", "s", "s", "e", "t", "s", "/", "5", ".", "j", "p", "g">>)),
       Product(6,
               Str(<<"A", "a", "s", "h", "i", "r", "v", "a", "a", "d", " ", "H",
                     "i", "m", "a", "l", "a", "y", "a", "n", " ", "P", "i", "n",
                     "k", " ", "S", "a", "l", "t">>),
               Num(106),
               Str(<<"a", "s", "s", "e", "t", "s", "/", "6", ".", "j", "p", "g">>)),
       Product(7,
               Str(<<"F", "o", "r", "t", "u", "n", "e", " ", "o", "i", "l", " ">>),
               Num(650),
               Str(<<"a", "s", "s", "e", "t", "s", "/", "7", ".", "j", "p", "g">>)),
       Product(8,
               Str(<<"A", "m", "a", "m", "i", " ", "o", "i", "l">>),
               Num(208),
               Str(<<"a", "s", "s", "e", "t", "s", "/", "8", ".", "j", "p", "g">>)),
       Product(9,
               Str(<<"S", "a", "f", "f", "o", "l", "a", " ", "o", "i", "l">>),
               Num(1072),
               Str(<<"a", "s", "s", "e", "t", "s", "/", "9", ".", "j", "p", "g">>)) >>

RECURSIVE TrimEnd(_)
TrimEnd(s) ==
    IF s # <<>> /\ IsWhiteSpace(s[Len(s)])
    THEN TrimEnd(SubSeq(s, 1, Len(s) - 1)) ELSE s

\* String.prototype.trim
trim(s) == TrimEnd(TrimStart(s))

\* !x
Falsy(x) ==
    \/ x.t = "undefined"
    \/ x.t = "string" /\ x.s = <<>>
    \/ x.t = "number" /\ x.v = 0

\* lines 55 and 66: !x || typeof x !== 'string' || x.trim().length === 0
invalidText(x) == Falsy(x) \/ x.t # "string" \/ trim(x.s) = <<>>

\* lines 61 and 143: isNaN(priceNum) || priceNum < 0
invalidPrice(r) == r.nan \/ r.n < 0

\* the Number a parsed price is (the prices passed in are whole numbers)
NumberOf(r) == Num(r.n \div r.d)

\* isNaN(x): a number is not NaN, undefined converts to NaN, a string to
\* the number it writes (digits only among the strings passed in)
isNaN(x) ==
    CASE x.t = "number" -> FALSE
      [] x.t = "string" -> trim(x.s) # <<>> /\ DigitRun(trim(x.s)) # Len(trim(x.s))
      [] OTHER -> TRUE

\* lines 98, 120 and 172: !id || isNaN(id)
invalidId(id) == Falsy(id) \/ isNaN(id)

\* the localStorage entry: absent, or the JSON text of an array
NoItem == [present |-> FALSE, items |-> <<>>]
Item(json) == [present |-> TRUE, items |-> json]

\* JSON.stringify of a value: a number as its decimal text, a string
\* quoted, a property that is undefined left out
stringifyValue(x) ==
    CASE x.t = "number" -> [json |-> "number", text |-> ToString(x)]
      [] x.t = "string" -> [json |-> "string", text |-> x.s]
      [] OTHER -> [json |-> "absent", text |-> <<>>]

\* JSON.parse of a value
parseValue(j) ==
    CASE j.json = "number" ->
            IF Head(j.text) = "-" THEN Num(0 - DigitsValue(Tail(j.text)))
            ELSE Num(DigitsValue(j.text))
      [] j.json = "string" -> Str(j.text)
      [] OTHER -> Undefined

\* products.js 14-21
toJSON(p) == [id |-> p.id, name |-> p.name, price |-> p.price, image |-> p.image]

\* products.js 24-26
fromJSON(data) == Product(data.id, data.name, data.price, data.image)

stringify(data) ==
    [id |-> stringifyValue(Num(data.id)), name |-> stringifyValue(data.name),
     price |-> stringifyValue(data.price), image |-> stringifyValue(data.image)]

parse(j) ==
    [id |-> parseValue(j.id).v, name |-> parseValue(j.name),
     price |-> parseValue(j.price), image |-> parseValue(j.image)]

\* what localStorage does during one call: access is FALSE when getItem
\* and removeItem throw, write is FALSE when setItem throws
Fine == [access |-> TRUE, write |-> TRUE]

\* localStorage works, setItem throws (quota, private mode), or every
\* access throws
Envs ==
    {Fine, [access |-> TRUE, write |-> FALSE],
     [access |-> FALSE, write |-> FALSE]}

\* lines 35-44: the entry after saveProducts(products) and what it
\* returned; when setItem throws the entry stays and false is returned
saveProducts(st, products, accepted) ==
    IF accepted
    THEN [storage |-> Item([i \in 1..Len(products) |->
                              stringify(toJSON(products[i]))]),
          ok |-> TRUE]
    ELSE [storage |-> st, ok |-> FALSE]

\* lines 13-28: the array returned, the entry after the call, and whether
\* the array returned is defaultProducts itself (lines 19 and 26); the
\* result of the save of line 18 is not looked at
getProducts(st, df, env) ==
    IF ~env.access
    THEN [storage |-> st, list |-> df, alias |-> TRUE]
    ELSE IF ~st.present
    THEN [storage |-> saveProducts(st, df, env.write).storage,
          list |-> df, alias |-> TRUE]
    ELSE [storage |-> st,
          list |-> [i \in 1..Len(st.items) |-> fromJSON(parse(st.items[i]))],
          alias |-> FALSE]

\* the call returned null or false before it read or wrote anything
refused(st, df) == [storage |-> st, defaults |-> df, ok |-> FALSE, id |-> 0]

Max(S) == CHOOSE m \in S : \A x \in S : x <= m

\* an id one past the number of products
newIdByLength(products) == Len(products) + 1

\* lines 75-76
newId(products) ==
    (IF Len(products) > 0
     THEN Max({products[i].id : i \in 1..Len(products)}) ELSE 0) + 1

\* lines 79-89: the new product pushed on the array getProducts returned;
\* null is returned when the save fails, after the push
pushProduct(g, df, newProduct, env) ==
    LET saved == saveProducts(g.storage, Append(g.list, newProduct), env.write)
    IN  [storage |-> saved.storage,
         defaults |-> IF g.alias THEN Append(g.list, newProduct) ELSE df,
         ok |-> saved.ok,
         id |-> IF saved.ok THEN newProduct.id ELSE 0]

\* lines 72-79
createProduct(g, df, name, price, image, env) ==
    pushProduct(g, df, Product(newId(g.list), Str(trim(name.s)),
                               NumberOf(parseFloat(price)), Str(trim(image.s))),
                env)

\* lines 53-90
addProduct(st, df, name, price, image, env) ==
    IF invalidText(name) THEN refused(st, df)
    ELSE IF invalidPrice(parseFloat(price)) THEN refused(st, df)
    ELSE IF invalidText(image) THEN refused(st, df)
    ELSE createProduct(getProducts(st, df, env), df, name, price, image, env)

\* lines 103-110: filter makes a new array; line 110 returns what
\* saveProducts returned
removeProduct(g, df, id, env) ==
    LET keep(p) == Num(p.id) # id
        saved == saveProducts(g.storage, SelectSeq(g.list, keep), env.write)
    IN  IF Len(SelectSeq(g.list, keep)) = Len(g.list)
        THEN [storage |-> g.storage, defaults |-> df, ok |-> FALSE, id |-> 0]
        ELSE [storage |-> saved.storage, defaults |-> df,
              ok |-> saved.ok, id |-> 0]

\* lines 97-111
deleteProduct(st, df, id, env) ==
    IF invalidId(id) THEN refused(st, df)
    ELSE removeProduct(getProducts(st, df, env), df, id, env)

\* line 125: the 1-based index of the product with this id, 0 for -1
findIndex(products, id) ==
    IF \E i \in 1..Len(products) : Num(products[i].id) = id
    THEN CHOOSE i \in 1..Len(products) :
            /\ Num(products[i].id) = id
            /\ \A j \in 1..(i - 1) : Num(products[j].id) # id
    ELSE 0

NoUpdate == [name |-> Undefined, price |-> Undefined, image |-> Undefined]

\* lines 132-139, on the objects of the array: u.rejected once a field was
\* refused
assignName(u, i, updates) ==
    IF u.rejected \/ updates.name.t = "undefined" THEN u
    ELSE IF trim(updates.name.s) = <<>> THEN [u EXCEPT !.rejected = TRUE]
    ELSE [u EXCEPT !.products[i].name = Str(trim(updates.name.s))]

\* lines 141-148
assignPrice(u, i, updates) ==
    IF u.rejected \/ updates.price.t = "undefined" THEN u
    ELSE IF invalidPrice(parseFloat(updates.price)) THEN [u EXCEPT !.rejected = TRUE]
    ELSE [u EXCEPT !.products[i].price = NumberOf(parseFloat(updates.price))]

\* lines 150-157
assignImage(u, i, updates) ==
    IF u.rejected \/ updates.image.t = "undefined" THEN u
    ELSE IF trim(updates.image.s) = <<>> THEN [u EXCEPT !.rejected = TRUE]
    ELSE [u EXCEPT !.products[i].image = Str(trim(updates.image.s))]

\* lines 131-163: the objects assigned to are those of defaultProducts when
\* getProducts returned that array; null is returned and nothing is saved
\* when a field was refused (lines 136, 145 and 154), null is returned when
\* the save fails
finishUpdate(g, df, u, id, env) ==
    LET saved == saveProducts(g.storage, u.products, env.write)
    IN  [storage |-> IF u.rejected THEN g.storage ELSE saved.storage,
         defaults |-> IF g.alias THEN u.products ELSE df,
         ok |-> ~u.rejected /\ saved.ok,
         id |-> IF ~u.rejected /\ saved.ok THEN id.v ELSE 0]

\* lines 124-163
applyUpdate(g, df, i, id, updates, env) ==
    IF i = 0
    THEN [storage |-> g.storage, defaults |-> df, ok |-> FALSE, id |-> 0]
    ELSE finishUpdate(g, df,
             assignImage(assignPrice(assignName(
                 [rejected |-> FALSE, products |-> g.list], i, updates),
                 i, updates), i, updates),
             id, env)

findAndUpdate(g, df, id, updates, env) ==
    applyUpdate(g, df, findIndex(g.list, id), id, updates, env)

\* lines 119-164
updateProduct(st, df, id, updates, env) ==
    IF invalidId(id) THEN refused(st, df)
    ELSE findAndUpdate(getProducts(st, df, env), df, id, updates, env)

\* lines 184-194: removeItem, then saveProducts(defaultProducts), whose
\* result is not looked at; false when removeItem throws
clearAllProducts(st, df, env) ==
    IF ~env.access
    THEN [storage |-> st, defaults |-> df, ok |-> FALSE, id |-> 0]
    ELSE [storage |-> saveProducts(NoItem, df, env.write).storage,
          defaults |-> df, ok |-> TRUE, id |-> 0]

\* what callers pass
Tea == Str(<<" ", "T", "e", "a", " ">>)
Blank == Str(<<" ">>)
TeaImage == Str(<<"t", ".", "j", "p", "g">>)

AddInputs ==
    { <<Tea, Num(5), TeaImage>>,
      <<Tea, Str(<<"1", "2", "a", "b">>), TeaImage>>,
      <<Undefined, Num(5), TeaImage>>,
      <<Blank, Num(5), TeaImage>>,
      <<Tea, Str(<<"a", "b", "c">>), TeaImage>>,
      <<Tea, Num(-1), TeaImage>>,
      <<Tea, Num(5), Blank>> }

Ids == {Num(0), Num(1), Num(9), Num(10), Num(77), Str(<<"1">>), Undefined}

Updates ==
    { [NoUpdate EXCEPT !.name = Tea],
      [NoUpdate EXCEPT !.price = Str(<<"7">>)],
      [name |-> Tea, price |-> Str(<<"a", "b", "c">>), image |-> Undefined],
      [name |-> Blank, price |-> Num(7), image |-> Undefined],
      [name |-> Tea, price |-> Num(7), image |-> Blank],
      [name |-> Tea, price |-> Num(7), image |-> TeaImage] }

\* the arrays a script hands to saveProducts itself: an empty one, and one
\* holding the first default product twice
SaveInputs == {<<>>, <<DefaultProducts[1], DefaultProducts[1]>>}

Done(op, args, r) == [op |-> op, args |-> args, ok |-> r.ok, id |-> r.id]

\* a page load: products.js has just run, localStorage holds what earlier
\* sessions left (nothing, an emptied catalog, or the saved defaults)
InitStore ==
    /\ storage \in {NoItem, saveProducts(NoItem, <<>>, TRUE).storage,
                     saveProducts(NoItem, DefaultProducts, TRUE).storage}
    /\ defaults = DefaultProducts
    /\ assigned = {DefaultProducts[i].id : i \in 1..Len(DefaultProducts)}
    /\ lastOp = [op |-> "load", args |-> <<>>, ok |-> TRUE, id |-> 0]
    /\ ops = 0
    /\ direct = FALSE
    /\ objs = <<>>
    /\ arrs = <<>>
    /\ input = NonArray("null")
    /\ call = NoCall
    /\ result = NoResult
    /\ again = NoResult
    /\ pc = "store"
    /\ StepsIdle
    /\ CartIdle

GetProducts ==
    /\ ops < MaxOps
    /\ \E env \in Envs : storage' = getProducts(storage, defaults, env).storage
    /\ lastOp' = [op |-> "getProducts", args |-> <<>>, ok |-> TRUE, id |-> 0]
    /\ ops' = ops + 1
    /\ UNCHANGED <<direct, defaults, assigned, callVars, stepVars, cartVars>>

AddProduct ==
    /\ ops < MaxOps
    /\ \E in \in AddInputs : \E env \in Envs :
          \E r \in {addProduct(storage, defaults, in[1], in[2], in[3], env)} :
             /\ storage' = r.storage
             /\ defaults' = r.defaults
             /\ assigned' = IF r.ok THEN assigned \cup {r.id} ELSE assigned
             /\ lastOp' = Done("addProduct", in, r)
    /\ ops' = ops + 1
    /\ UNCHANGED <<direct, callVars, stepVars, cartVars>>

DeleteProduct ==
    /\ ops < MaxOps
    /\ \E id \in Ids : \E env \in Envs :
          \E r \in {deleteProduct(storage, defaults, id, env)} :
             /\ storage' = r.storage
             /\ defaults' = r.defaults
             /\ lastOp' = Done("deleteProduct", <<id>>, r)
    /\ ops' = ops + 1
    /\ UNCHANGED <<direct, assigned, callVars, stepVars, cartVars>>

UpdateProduct ==
    /\ ops < MaxOps
    /\ \E id \in Ids : \E updates \in Updates : \E env \in Envs :
          \E r \in {updateProduct(storage, defaults, id, updates, env)} :
             /\ storage' = r.storage
             /\ defaults' = r.defaults
             /\ lastOp' = Done("updateProduct",
                               <<id, updates.name, updates.price, updates.image>>, r)
    /\ ops' = ops + 1
    /\ UNCHANGED <<direct, assigned, callVars, stepVars, cartVars>>

ClearAllProducts ==
    /\ ops < MaxOps
    /\ \E env \in Envs :
          \E r \in {clearAllProducts(storage, defaults, env)} :
             /\ storage' = r.storage
             /\ lastOp' = Done("clearAllProducts", <<>>, r)
    /\ ops' = ops + 1
    /\ UNCHANGED <<direct, defaults, assigned, callVars, stepVars, cartVars>>

\* backend.js 35-44, exported at line 208: a script calls saveProducts
\* itself
SaveProducts ==
    /\ ops < MaxOps
    /\ \E products \in SaveInputs : \E env \in Envs :
          \E r \in {saveProducts(storage, products, env.write)} :
             /\ storage' = r.storage
             /\ direct' = (direct \/ r.ok)
             /\ lastOp' = [op |-> "saveProducts", args |-> <<products>>,
                           ok |-> r.ok, id |-> 0]
    /\ ops' = ops + 1
    /\ UNCHANGED <<defaults, assigned, callVars, stepVars, cartVars>>

\* the page is loaded again: products.js runs again, localStorage stays
LoadPage ==
    /\ ops < MaxOps
    /\ defaults' = DefaultProducts
    /\ lastOp' = [op |-> "load", args |-> <<>>, ok |-> TRUE, id |-> 0]
    /\ ops' = ops + 1
    /\ UNCHANGED <<direct, storage, assigned, callVars, stepVars, cartVars>>

NextStore ==
    \/ GetProducts \/ AddProduct \/ DeleteProduct
    \/ UpdateProduct \/ ClearAllProducts \/ SaveProducts \/ LoadPage

SpecStore == InitStore /\ [][NextStore]_vars

(***************************************************************************)
(* Properties of the catalog                                               *)
(***************************************************************************)
\* the list a call of getProducts would return now
Catalog == getProducts(storage, defaults, Fine).list

CatalogIds == {Catalog[i].id : i \in 1..Len(Catalog)}

\* C17: after clearAllProducts the store holds exactly the nine default
\* products, with their original ids, names, prices and images.
ClearRestoresDefaults ==
    lastOp.op = "clearAllProducts" =>
        /\ storage.present
        /\ Catalog = DefaultProducts

\* C18: after any sequence of getProducts, addProduct, updateProduct,
\* deleteProduct and clearAllProducts calls and page loads (no entry stored
\* by a script calling saveProducts itself) no two products of the stored
\* catalog have the same id, and the id of a product addProduct returns is
\* one more than the largest id of the catalog before the call, or 1 when
\* that catalog was empty.
UniqueIds ==
    /\ [](~direct =>
            \A i, j \in 1..Len(Catalog) : Catalog[i].id = Catalog[j].id => i = j)
    /\ [][ (lastOp'.op = "addProduct" /\ lastOp'.ok /\ ops' # ops)
              => lastOp'.id = IF CatalogIds = {} THEN 1
                              ELSE Max(CatalogIds) + 1 ]_vars

\* a product was added after a delete: nine products are stored and the
\* new one has id 10
UniqueIdsWitness ==
    /\ ~direct
    /\ lastOp.op = "addProduct"
    /\ lastOp.ok
    /\ lastOp.id = 10
    /\ Len(Catalog) = 9

\* C19: an id addProduct returns was never the id of an earlier product.
IdNeverReused ==
    [][ (lastOp'.op = "addProduct" /\ lastOp'.ok /\ ops' # ops)
           => lastOp'.id \notin assigned ]_vars

\* the product with this id after a successful update: each supplied field
\* replaced, the others kept
Updated(old, args) ==
    Product(old.id,
            IF args[2].t = "undefined" THEN old.name ELSE Str(trim(args[2].s)),
            IF args[3].t = "undefined" THEN old.price
            ELSE NumberOf(parseFloat(args[3])),
            IF args[4].t = "undefined" THEN old.image ELSE Str(trim(args[4].s)))

\* C20: a call of addProduct, updateProduct or deleteProduct that reports
\* failure leaves the list getProducts returns as it was, and a call of
\* updateProduct that reports success has replaced every supplied field of
\* that product and nothing else.
FailureLeavesCatalog ==
    [][ /\ (/\ ops' # ops
            /\ lastOp'.op \in {"addProduct", "updateProduct", "deleteProduct"}
            /\ ~lastOp'.ok)
              => getProducts(storage', defaults', Fine).list = Catalog
        /\ (ops' # ops /\ lastOp'.op = "updateProduct" /\ lastOp'.ok)
              => getProducts(storage', defaults', Fine).list
                    = [i \in 1..Len(Catalog) |->
                          IF Num(Catalog[i].id) = lastOp'.args[1]
                          THEN Updated(Catalog[i], lastOp'.args)
                          ELSE Catalog[i]] ]_vars

(***************************************************************************)
(* The cart of scripts/backend.js (lines 223-458) and the cart page of     *)
(* scripts/ui-cart.js.  A cart operation is an operator from the           *)
(* localStorage entry c of the cart to the entry after the call and        *)
(* whether the call reported success, in an environment env as for the     *)
(* catalog.  The cards of the page keep the CartItem objects they were     *)
(* made from: the click handlers read them.                                *)
(***************************************************************************)
\* cart operations and clicks in one run
MaxCartOps == 3

\* backend.js 228-235
CartItem(id, name, price, img, qty) ==
    [id |-> id, name |-> name, price |-> price, img |-> img, qty |-> qty]

\* backend.js 243-251
CartItemToJSON(item) ==
    [id |-> item.id, name |-> item.name, price |-> item.price,
     img |-> item.img, qty |-> item.qty]

\* backend.js 254-256: data.qty || 1
CartItemFromJSON(data) ==
    CartItem(data.id, data.name, data.price, data.img,
             IF Falsy(data.qty) THEN Num(1) ELSE data.qty)

stringifyCartItem(data) ==
    [id |-> stringifyValue(data.id), name |-> stringifyValue(data.name),
     price |-> stringifyValue(data.price), img |-> stringifyValue(data.img),
     qty |-> stringifyValue(data.qty)]

parseCartItem(j) ==
    [id |-> parseValue(j.id), name |-> parseValue(j.name),
     price |-> parseValue(j.price), img |-> parseValue(j.img),
     qty |-> parseValue(j.qty)]

\* backend.js 263-275: [] when the key is absent or getItem throws
getCartItems(c, env) ==
    IF ~env.access \/ ~c.present THEN <<>>
    ELSE [i \in 1..Len(c.items) |-> CartItemFromJSON(parseCartItem(c.items[i]))]

\* backend.js 282-291: the entry after saveCartItems(cartItems) and what
\* it returned; when setItem throws the entry stays and false is returned
saveCartItems(c, cartItems, accepted) ==
    IF accepted
    THEN [cart |-> Item([i \in 1..Len(cartItems) |->
                           stringifyCartItem(CartItemToJSON(cartItems[i]))]),
          ok |-> TRUE]
    ELSE [cart |-> c, ok |-> FALSE]

\* the integer written by the first k characters of s, all digits
IntegerOf(s, k) == IF k = 0 THEN NaN ELSE Rat(DigitsValue(SubSeq(s, 1, k)), 1)

ParseIntUnsigned(s) == IntegerOf(s, DigitRun(s))

ParseIntSigned(s) ==
    WithSign(s # <<>> /\ Head(s) = "-",
             ParseIntUnsigned(IF HasSign(s) THEN Tail(s) ELSE s))

\* parseInt: ToString, skip leading white space, optional sign, then the
\* leading digits
parseInt(x) == ParseIntSigned(TrimStart(ToString(x)))

\* the call returned null or false and wrote nothing
refusedCart(c) == [cart |-> c, ok |-> FALSE]

\* lines 328 and 398: the 1-based index of the line with this id (===),
\* 0 for -1
findItemIndex(cartItems, id) ==
    IF \E i \in 1..Len(cartItems) : cartItems[i].id = id
    THEN CHOOSE i \in 1..Len(cartItems) :
            /\ cartItems[i].id = id
            /\ \A j \in 1..(i - 1) : cartItems[j].id # id
    ELSE 0

\* the quantity of the line raised by two
increaseLineTwice(cartItems, i) ==
    [cartItems EXCEPT ![i].qty = Num(@.v + 2)]

\* line 332
increaseLine(cartItems, i) ==
    [cartItems EXCEPT ![i].qty = Num(@.v + 1)]

\* lines 335-336
appendLine(cartItems, id, name, price, img) ==
    Append(cartItems,
           CartItem(id, Str(trim(name.s)), NumberOf(parseFloat(price)),
                    Str(trim(img.s)), Num(1)))

\* lines 330-337
addLine(cartItems, i, id, name, price, img) ==
    IF i # 0 THEN increaseLine(cartItems, i)
    ELSE appendLine(cartItems, id, name, price, img)

\* lines 325-346: null is returned when the save fails
putInCart(c, cartItems, id, name, price, img, env) ==
    saveCartItems(c,
                  addLine(cartItems, findItemIndex(cartItems, id),
                          id, name, price, img),
                  env.write)

\* lines 301-347
addToCart(c, id, name, price, img, env) ==
    IF invalidId(id) THEN refusedCart(c)
    ELSE IF invalidText(name) THEN refusedCart(c)
    ELSE IF invalidPrice(parseFloat(price)) THEN refusedCart(c)
    ELSE IF invalidText(img) THEN refusedCart(c)
    ELSE putInCart(c, getCartItems(c, env), id, name, price, img, env)

\* lines 359-373: filter makes a new array; false is returned when the
\* save fails
removeLine(c, cartItems, id, env) ==
    LET keep(item) == item.id # id
    IN  IF Len(SelectSeq(cartItems, keep)) = Len(cartItems)
        THEN refusedCart(c)
        ELSE saveCartItems(c, SelectSeq(cartItems, keep), env.write)

\* lines 354-374
removeFromCart(c, id, env) ==
    IF invalidId(id) THEN refusedCart(c)
    ELSE removeLine(c, getCartItems(c, env), id, env)

\* a quantity refused only when it is negative
tooSmallBelowZero(quantity) == quantity.nan \/ quantity.n < 0

\* line 388: isNaN(quantity) || quantity < 1
tooSmall(quantity) == quantity.nan \/ quantity.n < 1

\* lines 397-412: null is returned when the save fails
setQuantity(c, cartItems, i, quantity, env) ==
    IF i = 0 THEN refusedCart(c)
    ELSE saveCartItems(c, [cartItems EXCEPT ![i].qty = Num(quantity.n)],
                       env.write)

\* lines 387-412: what removeFromCart returned is not looked at
checkQuantity(c, id, quantity, env) ==
    IF tooSmall(quantity)
    THEN IF ~quantity.nan /\ quantity.n <= 0
         THEN [cart |-> removeFromCart(c, id, env).cart, ok |-> FALSE]
         ELSE refusedCart(c)
    ELSE setQuantity(c, getCartItems(c, env),
                     findItemIndex(getCartItems(c, env), id), quantity, env)

\* lines 382-413
updateCartQuantity(c, id, qty, env) ==
    IF invalidId(id) THEN refusedCart(c)
    ELSE checkQuantity(c, id, parseInt(qty), env)

\* lines 419-429: false when removeItem throws
clearCart(c, env) ==
    IF env.access THEN [cart |-> NoItem, ok |-> TRUE] ELSE refusedCart(c)

\* lines 453-458
checkout(c, env) == clearCart(c, env)

\* line 223
CartKey == Str(<<"g", "r", "o", "c", "n", "o", "_", "c", "a", "r", "t">>)

\* lines 342, 369, 408 and 423: new Event('storage') has no key
DispatchedKey == Undefined

\* ui-cart.js 9-44: the CartItem objects the cards are made from
displayCartItems(c, env) == getCartItems(c, env)

\* ui-cart.js 222-226: the cards after a storage event
onStorage(key, c, shown, env) ==
    IF key = CartKey THEN displayCartItems(c, env) ELSE shown

\* the cards after a backend call that ended as r: the event is dispatched
\* when the save succeeded
afterCall(r, shown, env) ==
    IF r.ok THEN onStorage(DispatchedKey, r.cart, shown, env) ELSE shown

\* ui-cart.js 112-138: the cart and the cards after the call
updateCartItemQuantity(c, shown, id, qty, env) ==
    [cart |-> updateCartQuantity(c, id, qty, env).cart,
     ok |-> updateCartQuantity(c, id, qty, env).ok,
     cards |-> IF updateCartQuantity(c, id, qty, env).ok
               THEN afterCall(updateCartQuantity(c, id, qty, env), shown, env)
               ELSE IF qty = Num(0)
               THEN displayCartItems(updateCartQuantity(c, id, qty, env).cart, env)
               ELSE shown]

\* ui-cart.js 87: Math.max(1, cartItem.qty - 1)
decreased(cartItem) == Num(IF cartItem.qty.v - 1 > 1 THEN cartItem.qty.v - 1 ELSE 1)

\* ui-cart.js 94: cartItem.qty + 1
increased(cartItem) == Num(cartItem.qty.v + 1)

\* ui-cart.js 145-154, the user confirming
handleRemoveItem(c, shown, id, env) ==
    [cart |-> removeFromCart(c, id, env).cart,
     ok |-> removeFromCart(c, id, env).ok,
     cards |-> IF removeFromCart(c, id, env).ok
               THEN displayCartItems(removeFromCart(c, id, env).cart, env)
               ELSE shown]

\* what callers pass
CartInputs ==
    { <<Num(1), Tea, Num(5), TeaImage>>,
      <<Num(2), Tea, Str(<<"1", "2", "a", "b">>), TeaImage>>,
      <<Num(2), Str(<<"T", "e", "a", "s">>), Num(5), TeaImage>>,
      <<Str(<<"1">>), Tea, Num(5), TeaImage>>,
      <<Num(0), Tea, Num(5), TeaImage>>,
      <<Num(1), Blank, Num(5), TeaImage>>,
      <<Num(1), Tea, Str(<<"a", "b", "c">>), TeaImage>>,
      <<Num(1), Tea, Num(5), Undefined>> }

CartIds == {Num(1), Num(2), Str(<<"1">>), Num(0), Num(77)}

Quantities ==
    {Num(-1), Num(0), Num(1), Num(3), Str(<<"2", ".", "5">>),
     Str(<<"a", "b", "c">>), Str(<<"0">>)}

\* the cart page is opened on an empty cart or on the cart an earlier
\* session left (one line, as addToCart stored it), and shows it
InitCart ==
    /\ storage = saveProducts(NoItem, DefaultProducts, TRUE).storage
    /\ defaults = DefaultProducts
    /\ assigned = {DefaultProducts[i].id : i \in 1..Len(DefaultProducts)}
    /\ lastOp = [op |-> "load", args |-> <<>>, ok |-> TRUE, id |-> 0,
                 write |-> TRUE]
    /\ ops = 0
    /\ direct = FALSE
    /\ cart \in {NoItem,
                  addToCart(NoItem, Num(1), Tea, Num(5), TeaImage, Fine).cart}
    /\ cards = displayCartItems(cart, Fine)
    /\ objs = <<>>
    /\ arrs = <<>>
    /\ input = NonArray("null")
    /\ call = NoCall
    /\ result = NoResult
    /\ again = NoResult
    /\ pc = "cart"
    /\ StepsIdle

\* the arrays a script hands to saveCartItems itself: one line of
\* quantity 0, and the same line twice
SavedCarts ==
    { <<CartItem(Num(1), Str(<<"T", "e", "a">>), Num(5), TeaImage, Num(0))>>,
      <<CartItem(Num(1), Str(<<"T", "e", "a">>), Num(5), TeaImage, Num(1)),
        CartItem(Num(1), Str(<<"T", "e", "a">>), Num(5), TeaImage, Num(1))>> }

Called(op, args, r, env) ==
    [op |-> op, args |-> args, ok |-> r.ok, id |-> 0, write |-> env.write]

AddToCart ==
    /\ ops < MaxCartOps
    /\ \E in \in CartInputs : \E env \in Envs :
          \E r \in {addToCart(cart, in[1], in[2], in[3], in[4], env)} :
             /\ cart' = r.cart
             /\ cards' = afterCall(r, cards, env)
             /\ lastOp' = Called("addToCart", in, r, env)
    /\ ops' = ops + 1
    /\ UNCHANGED <<direct, storage, defaults, assigned, callVars, stepVars>>

RemoveFromCart ==
    /\ ops < MaxCartOps
    /\ \E id \in CartIds : \E env \in Envs :
          \E r \in {removeFromCart(cart, id, env)} :
             /\ cart' = r.cart
             /\ cards' = afterCall(r, cards, env)
             /\ lastOp' = Called("removeFromCart", <<id>>, r, env)
    /\ ops' = ops + 1
    /\ UNCHANGED <<direct, storage, defaults, assigned, callVars, stepVars>>

UpdateCartQuantity ==
    /\ ops < MaxCartOps
    /\ \E id \in CartIds : \E qty \in Quantities : \E env \in Envs :
          \E r \in {updateCartQuantity(cart, id, qty, env)} :
             /\ cart' = r.cart
             /\ cards' = afterCall(r, cards, env)
             /\ lastOp' = Called("updateCartQuantity", <<id, qty>>, r, env)
    /\ ops' = ops + 1
    /\ UNCHANGED <<direct, storage, defaults, assigned, callVars, stepVars>>

ClearCart ==
    /\ ops < MaxCartOps
    /\ \E env \in Envs :
          \E r \in {clearCart(cart, env)} :
             /\ cart' = r.cart
             /\ cards' = afterCall(r, cards, env)
             /\ lastOp' = Called("clearCart", <<>>, r, env)
    /\ ops' = ops + 1
    /\ UNCHANGED <<direct, storage, defaults, assigned, callVars, stepVars>>

Checkout ==
    /\ ops < MaxCartOps
    /\ \E env \in Envs :
          \E r \in {checkout(cart, env)} :
             /\ cart' = r.cart
             /\ cards' = afterCall(r, cards, env)
             /\ lastOp' = Called("checkout", <<>>, r, env)
    /\ ops' = ops + 1
    /\ UNCHANGED <<direct, storage, defaults, assigned, callVars, stepVars>>

\* the page is loaded again, or another tab has written the cart
DisplayCartItems ==
    /\ ops < MaxCartOps
    /\ \E env \in Envs :
          /\ cards' = onStorage(CartKey, cart, cards, env)
          /\ lastOp' = [op |-> "displayCartItems", args |-> <<>>, ok |-> TRUE,
                        id |-> 0, write |-> env.write]
    /\ ops' = ops + 1
    /\ UNCHANGED <<direct, cart, storage, defaults, assigned, callVars, stepVars>>

\* ui-cart.js 93-95: a click on + of the k-th card
ClickIncrease ==
    /\ ops < MaxCartOps
    /\ \E k \in 1..Len(cards) : \E env \in Envs :
          \E r \in {updateCartItemQuantity(cart, cards, cards[k].id,
                                           increased(cards[k]), env)} :
             /\ cart' = r.cart
             /\ cards' = r.cards
             /\ lastOp' = Called("increase", <<cards[k].id>>, r, env)
    /\ ops' = ops + 1
    /\ UNCHANGED <<direct, storage, defaults, assigned, callVars, stepVars>>

\* ui-cart.js 86-89: a click on - of the k-th card
ClickDecrease ==
    /\ ops < MaxCartOps
    /\ \E k \in 1..Len(cards) : \E env \in Envs :
          \E r \in {updateCartItemQuantity(cart, cards, cards[k].id,
                                           decreased(cards[k]), env)} :
             /\ cart' = r.cart
             /\ cards' = r.cards
             /\ lastOp' = Called("decrease", <<cards[k].id>>, r, env)
    /\ ops' = ops + 1
    /\ UNCHANGED <<direct, storage, defaults, assigned, callVars, stepVars>>

\* ui-cart.js 99-101: a click on Remove of the k-th card, confirmed
ClickRemove ==
    /\ ops < MaxCartOps
    /\ \E k \in 1..Len(cards) : \E env \in Envs :
          \E r \in {handleRemoveItem(cart, cards, cards[k].id, env)} :
             /\ cart' = r.cart
             /\ cards' = r.cards
             /\ lastOp' = Called("remove", <<cards[k].id>>, r, env)
    /\ ops' = ops + 1
    /\ UNCHANGED <<direct, storage, defaults, assigned, callVars, stepVars>>

\* backend.js 282-291, exported at line 465: a script calls saveCartItems
\* itself; no event is dispatched and the cards stay
SaveCartItems ==
    /\ ops < MaxCartOps
    /\ \E cartItems \in SavedCarts : \E env \in Envs :
          \E r \in {saveCartItems(cart, cartItems, env.write)} :
             /\ cart' = r.cart
             /\ direct' = (direct \/ r.ok)
             /\ lastOp' = Called("saveCartItems", <<cartItems>>, r, env)
    /\ ops' = ops + 1
    /\ UNCHANGED <<cards, storage, defaults, assigned, callVars, stepVars>>

NextCart ==
    \/ AddToCart \/ RemoveFromCart \/ UpdateCartQuantity
    \/ ClearCart \/ Checkout \/ DisplayCartItems \/ SaveCartItems
    \/ ClickIncrease \/ ClickDecrease \/ ClickRemove

SpecCart == InitCart /\ [][NextCart]_vars

(***************************************************************************)
(* Properties of the cart                                                  *)
(***************************************************************************)
\* the line items as they are stored
StoredLines(c) ==
    IF ~c.present THEN <<>>
    ELSE [i \in 1..Len(c.items) |-> parseCartItem(c.items[i])]

HasLine(c, id) == \E i \in 1..Len(StoredLines(c)) : StoredLines(c)[i].id = id

\* the stored quantity of the line with this id
QtyOf(c, id) ==
    StoredLines(c)[CHOOSE i \in 1..Len(StoredLines(c)) :
                      StoredLines(c)[i].id = id].qty.v

\* C21: the stored cart holds at most one line per id and every line has
\* an integer quantity of at least 1; a call of updateCartQuantity with a
\* quantity of 0 or less leaves no line with that id.
CartWellFormed ==
    /\ [](\A i, j \in 1..Len(StoredLines(cart)) :
             /\ StoredLines(cart)[i].id = StoredLines(cart)[j].id => i = j
             /\ StoredLines(cart)[i].qty.t = "number"
             /\ StoredLines(cart)[i].qty.v \in Nat \ {0})
    /\ [][ (/\ ops' # ops
            /\ lastOp'.op = "updateCartQuantity"
            /\ ~invalidId(lastOp'.args[1])
            /\ ~parseInt(lastOp'.args[2]).nan
            /\ parseInt(lastOp'.args[2]).n <= 0)
              => ~HasLine(cart', lastOp'.args[1]) ]_vars

\* at most one line per id, every quantity an integer of at least 1
WellFormed(c) ==
    \A i, j \in 1..Len(StoredLines(c)) :
        /\ StoredLines(c)[i].id = StoredLines(c)[j].id => i = j
        /\ StoredLines(c)[i].qty.t = "number"
        /\ StoredLines(c)[i].qty.v \in Nat \ {0}

\* C21, with the refused write: after any sequence of addToCart,
\* removeFromCart, updateCartQuantity, clearCart and checkout calls and
\* clicks on the cart page (no entry stored by a script calling
\* saveCartItems itself) the stored cart holds at most one line per id and
\* every line has an integer quantity of at least 1; a call of
\* updateCartQuantity with a quantity of 0 or less then leaves no line with
\* that id when localStorage accepts the write, and leaves the stored cart
\* as it was, the line included, when setItem throws.
CartWellFormedWhenSaved ==
    /\ [](~direct => WellFormed(cart))
    /\ [][ (/\ ops' # ops
            /\ ~direct
            /\ lastOp'.op = "updateCartQuantity"
            /\ ~invalidId(lastOp'.args[1])
            /\ ~parseInt(lastOp'.args[2]).nan
            /\ parseInt(lastOp'.args[2]).n <= 0)
              => /\ ~lastOp'.ok
                 /\ IF lastOp'.write
                    THEN /\ ~HasLine(cart', lastOp'.args[1])
                         /\ StoredLines(cart')
                               = SelectSeq(StoredLines(cart),
                                           LAMBDA l : l.id # lastOp'.args[1])
                    ELSE cart' = cart ]_vars

\* updateCartQuantity has stored the quantity 3 in a cart of two lines
CartWitness ==
    /\ ~direct
    /\ lastOp.op = "updateCartQuantity"
    /\ lastOp.ok
    /\ Len(StoredLines(cart)) = 2
    /\ QtyOf(cart, lastOp.args[1]) = 3

validCartArgs(args) ==
    /\ ~invalidId(args[1])
    /\ ~invalidText(args[2])
    /\ ~invalidPrice(parseFloat(args[3]))
    /\ ~invalidText(args[4])

\* C22: addToCart with valid arguments raises the quantity of the line
\* with that id by 1 and adds no line, or appends one new line of quantity
\* 1 when there is none; every other line and the catalog stay as they are.
AddToCartEffect ==
    [][ (ops' # ops /\ lastOp'.op = "addToCart" /\ validCartArgs(lastOp'.args))
           => /\ lastOp'.ok
              /\ storage' = storage
              /\ defaults' = defaults
              /\ IF HasLine(cart, lastOp'.args[1])
                 THEN StoredLines(cart')
                         = [i \in 1..Len(StoredLines(cart)) |->
                              IF StoredLines(cart)[i].id = lastOp'.args[1]
                              THEN [StoredLines(cart)[i]
                                       EXCEPT !.qty = Num(@.v + 1)]
                              ELSE StoredLines(cart)[i]]
                 ELSE StoredLines(cart')
                         = Append(StoredLines(cart),
                                  CartItem(lastOp'.args[1],
                                           Str(trim(lastOp'.args[2].s)),
                                           NumberOf(parseFloat(lastOp'.args[3])),
                                           Str(trim(lastOp'.args[4].s)),
                                           Num(1))) ]_vars

\* C22, with the refused write, on a stored cart of at most one line per id
\* and quantities of at least 1: addToCart with valid arguments leaves the
\* catalog as it is; when localStorage accepts the write it reports success
\* and has raised the quantity of the line with that id by 1 and added no
\* line, or appended one new line of quantity 1 when there was none, every
\* other line staying as it was; when setItem throws it returns null and
\* the stored cart stays as it was.
AddToCartEffectWhenSaved ==
    [][ (/\ ops' # ops
         /\ lastOp'.op = "addToCart"
         /\ validCartArgs(lastOp'.args)
         /\ WellFormed(cart))
           => /\ lastOp'.ok = lastOp'.write
              /\ storage' = storage
              /\ defaults' = defaults
              /\ IF ~lastOp'.write
                 THEN cart' = cart
                 ELSE IF HasLine(cart, lastOp'.args[1])
                 THEN StoredLines(cart')
                         = [i \in 1..Len(StoredLines(cart)) |->
                              IF StoredLines(cart)[i].id = lastOp'.args[1]
                              THEN [StoredLines(cart)[i]
                                       EXCEPT !.qty = Num(@.v + 1)]
                              ELSE StoredLines(cart)[i]]
                 ELSE StoredLines(cart')
                         = Append(StoredLines(cart),
                                  CartItem(lastOp'.args[1],
                                           Str(trim(lastOp'.args[2].s)),
                                           NumberOf(parseFloat(lastOp'.args[3])),
                                           Str(trim(lastOp'.args[4].s)),
                                           Num(1))) ]_vars

\* addToCart has raised the quantity of a line to 2 in a cart of two lines
AddToCartWitness ==
    /\ ~direct
    /\ lastOp.op = "addToCart"
    /\ lastOp.ok
    /\ Len(StoredLines(cart)) = 2
    /\ QtyOf(cart, lastOp.args[1]) = 2

\* C23: a click on + of a card whose line is stored raises the stored
\* quantity of that line by 1, and a click on - lowers it by 1 but not
\* below 1.
ClickChangesByOne ==
    [][ /\ (ops' # ops /\ lastOp'.op = "increase" /\ HasLine(cart, lastOp'.args[1]))
              => /\ HasLine(cart', lastOp'.args[1])
                 /\ QtyOf(cart', lastOp'.args[1]) = QtyOf(cart, lastOp'.args[1]) + 1
        /\ (ops' # ops /\ lastOp'.op = "decrease" /\ HasLine(cart, lastOp'.args[1]))
              => /\ HasLine(cart', lastOp'.args[1])
                 /\ QtyOf(cart', lastOp'.args[1])
                       = IF QtyOf(cart, lastOp'.args[1]) > 1
                         THEN QtyOf(cart, lastOp'.args[1]) - 1 ELSE 1 ]_vars

====
